---- MODULE Spec2Model ----
(***************************************************************************)
(* Model of the latency-recording decorator `record_latency` of            *)
(* src/main_az.py (lines 31-48) together with its environment: the caller  *)
(* that invokes the wrapper, the wrapped callable `func`, the module-level *)
(* `histogram` sink and the system clock read by time.time().              *)
(*                                                                         *)
(* Every invocation of `wrapper` has its own frame (args, kwargs, start,   *)
(* result, duration_ms, err); the histogram and the clock are shared.      *)
(* Dictionaries live in a heap of objects so that aliasing between the     *)
(* caller's mapping, the wrapper's `kwargs` and the callee's `kwargs` is   *)
(* expressible.  One step of the model is one source line of one           *)
(* invocation, so concurrent invocations interleave line by line.          *)
(***************************************************************************)
EXTENDS Integers, FiniteSets, Sequences, TLC

VARIABLES
    pc,             \* per invocation: the source line about to execute
    args,           \* wrapper local `args` (positional arguments)
    heap,           \* dict objects: object id -> mapping
    kwRef,          \* wrapper local `kwargs`: the object it is bound to
    start,          \* wrapper local `start`
    result,         \* wrapper local `result`
    duration_ms,    \* wrapper local `duration_ms`
    err,            \* wrapper local `err`
    funcArgs,       \* positional arguments as received by func
    now,            \* the system clock returned by time.time(), in seconds
    sunk,           \* measurements accepted by histogram.record
    callerArgs0,    \* history: the positional arguments the caller passed
    callerKw0,      \* history: the mapping the caller passed, as passed
    opOutcome,      \* history: how func ended
    wrapperOutcome, \* history: what the caller of wrapper observed
    endRead,        \* history: the time.time() reading of line 39 or 43
    events          \* history: per invocation, the events in order

\* the frame of one wrapper invocation
locals == <<args, kwRef, start, result, duration_ms, err>>

\* what the caller passed
inputs == <<callerArgs0, callerKw0>>

vars == <<pc, locals, heap, funcArgs, now, sunk, inputs, opOutcome,
          wrapperOutcome, endRead, events>>

(***************************************************************************)
(* Bounds and input sets                                                   *)
(***************************************************************************)
MaxClock == 1

Clock == 0..MaxClock

\* the concurrent invocations of the one wrapped operation
Invs == {"i1", "i2"}

EmptyDict == [k \in {} |-> ""]

\* the calls a caller may make: <<positional arguments, named arguments>>;
\* `error` is a legal argument name
CallInputs ==
    { << <<>>,    EmptyDict >>,
      << <<"p">>, [name |-> "alice"] >>,
      << <<>>,    [name |-> "bob", error |-> "user"] >> }

\* values func may return
Results == {"naughty", "nice"}

\* errors func may raise; KeyboardInterrupt derives from BaseException only,
\* BadStrError is an Exception whose __str__ itself raises
FuncErrors == {"ValueError", "KeyboardInterrupt", "BadStrError"}

\* errors histogram.record may raise
SinkErrors == {"SinkError"}

NoOutcome == [kind |-> "none", val |-> "None"]

Returned(v) == [kind |-> "returned", val |-> v]

Raised(e) == [kind |-> "raised", val |-> e]

(***************************************************************************)
(* Python semantics used by the wrapper                                    *)
(***************************************************************************)
\* `except Exception` (line 42): which raised objects the handler catches
Catches(e) == e # "KeyboardInterrupt"

\* str(err) (line 44) raises for an exception whose __str__ raises
StrRaises(e) == e = "BadStrError"

\* str(err) (line 44): the message of the exception, not its class name
Str(e) ==
    CASE e = "ValueError" -> "bad value"
      [] e = "SinkError"  -> "export failed"
      [] OTHER            -> ""

\* kwargs["error"] = v (line 44): dict item assignment
DictSet(d, k, v) == [x \in (DOMAIN d) \cup {k} |-> IF x = k THEN v ELSE d[x]]

\* (time.time() - start) * 1_000 (lines 39 and 43)
ElapsedNoStart(i) == now * 1000

ElapsedMs(i) == (now - start[i]) * 1000

\* object ids of the dicts of invocation i
CallerObj(i) == <<"caller", i>>

FuncObj(i) == <<"func", i>>

\* `**kwargs` in the signature (line 35) binds kwargs to a new dict
BindKwargsAliased(i) == <<"caller", i>>

BindKwargs(i) == <<"kwargs", i>>

ObjIds == {"caller", "kwargs", "func"} \X Invs

\* `return result` (line 41)
ReturnNone(i) == "None"

ReturnValue(i) == result[i]

\* `raise err` (line 46)
RaiseWrapped(i) == "RuntimeError"

Reraised(i) == err[i]

\* the measurement histogram.record receives (lines 40 and 45)
Measurement(i, path) ==
    [inv |-> i, value |-> duration_ms[i], attrs |-> heap[kwRef[i]],
     path |-> path]

(***************************************************************************)
(* Initial state: no invocation has started                                *)
(***************************************************************************)
Init ==
    /\ pc = [i \in Invs |-> "idle"]
    /\ args = [i \in Invs |-> <<>>]
    /\ heap = [o \in ObjIds |-> EmptyDict]
    /\ kwRef = [i \in Invs |-> BindKwargs(i)]
    /\ start = [i \in Invs |-> 0]
    /\ result = [i \in Invs |-> "None"]
    /\ duration_ms = [i \in Invs |-> 0]
    /\ err = [i \in Invs |-> "None"]
    /\ funcArgs = [i \in Invs |-> <<>>]
    /\ now \in Clock
    /\ sunk = {}
    /\ callerArgs0 = [i \in Invs |-> <<>>]
    /\ callerKw0 = [i \in Invs |-> EmptyDict]
    /\ opOutcome = [i \in Invs |-> NoOutcome]
    /\ wrapperOutcome = [i \in Invs |-> NoOutcome]
    /\ endRead = [i \in Invs |-> 0]
    /\ events = [i \in Invs |-> <<>>]

\* history: invocation i did ev
Log(i, ev) == events' = [events EXCEPT ![i] = Append(@, ev)]

(***************************************************************************)
(* The clock.  time.time() is the system wall clock: it advances, and it   *)
(* can be set back (NTP step, manual adjustment).                          *)
(***************************************************************************)
Tick ==
    /\ now < MaxClock
    /\ now' = now + 1
    /\ UNCHANGED <<pc, locals, heap, funcArgs, sunk, inputs, opOutcome,
                   wrapperOutcome, endRead, events>>

SetBack ==
    /\ now > 0
    /\ now' = now - 1
    /\ UNCHANGED <<pc, locals, heap, funcArgs, sunk, inputs, opOutcome,
                   wrapperOutcome, endRead, events>>

(***************************************************************************)
(* The wrapper, line by line                                               *)
(***************************************************************************)
\* the caller calls wrapper(*a, **d) (line 35)
Call(i) ==
    /\ pc[i] = "idle"
    /\ \E c \in CallInputs :
          /\ args' = [args EXCEPT ![i] = c[1]]
          /\ kwRef' = [kwRef EXCEPT ![i] = BindKwargs(i)]
          /\ heap' = [heap EXCEPT ![CallerObj(i)] = c[2],
                                  ![BindKwargs(i)] = c[2]]
          /\ callerArgs0' = [callerArgs0 EXCEPT ![i] = c[1]]
          /\ callerKw0' = [callerKw0 EXCEPT ![i] = c[2]]
    /\ pc' = [pc EXCEPT ![i] = "l36"]
    /\ UNCHANGED <<start, result, duration_ms, err, funcArgs, now, sunk,
                   opOutcome, wrapperOutcome, endRead, events>>

\* start = time.time() (line 36)
L36(i) ==
    /\ pc[i] = "l36"
    /\ start' = [start EXCEPT ![i] = now]
    /\ Log(i, "start")
    /\ pc' = [pc EXCEPT ![i] = "l38"]
    /\ UNCHANGED <<args, kwRef, result, duration_ms, err, heap, funcArgs, now,
                   sunk, inputs, opOutcome, wrapperOutcome, endRead>>

\* func(*args, **kwargs) (line 38): the call; the callee's own `kwargs`
\* is a new dict holding the same items
L38Call(i) ==
    /\ pc[i] = "l38"
    /\ funcArgs' = [funcArgs EXCEPT ![i] = args[i]]
    /\ heap' = [heap EXCEPT ![FuncObj(i)] = heap[kwRef[i]]]
    /\ Log(i, "call")
    /\ pc' = [pc EXCEPT ![i] = "func"]
    /\ UNCHANGED <<locals, now, sunk, inputs, opOutcome, wrapperOutcome,
                   endRead>>

\* func returns a value (line 38: result = ...); func is arbitrary code and
\* may write to its own kwargs dict while it runs
FuncReturn(i) ==
    /\ pc[i] = "func"
    /\ \E r \in Results :
          /\ result' = [result EXCEPT ![i] = r]
          /\ opOutcome' = [opOutcome EXCEPT ![i] = Returned(r)]
    /\ heap' = [heap EXCEPT ![FuncObj(i)] = DictSet(@, "name", "scribbled")]
    /\ Log(i, "succeeded")
    /\ pc' = [pc EXCEPT ![i] = "l39"]
    /\ UNCHANGED <<args, kwRef, start, duration_ms, err, funcArgs, now, sunk,
                   inputs, wrapperOutcome, endRead>>

\* func raises (line 38); `except Exception as err` (line 42) catches it or
\* lets it propagate to the caller
FuncRaise(i) ==
    /\ pc[i] = "func"
    /\ \E e \in FuncErrors :
          /\ opOutcome' = [opOutcome EXCEPT ![i] = Raised(e)]
          /\ IF Catches(e)
                THEN /\ err' = [err EXCEPT ![i] = e]
                     /\ pc' = [pc EXCEPT ![i] = "l43"]
                     /\ events' = [events EXCEPT ![i] = Append(@, "failed")]
                     /\ UNCHANGED wrapperOutcome
                ELSE /\ wrapperOutcome' = [wrapperOutcome EXCEPT ![i] = Raised(e)]
                     /\ pc' = [pc EXCEPT ![i] = "raised"]
                     /\ events' = [events EXCEPT ![i] = @ \o <<"failed", "raised">>]
                     /\ UNCHANGED err
    /\ heap' = [heap EXCEPT ![FuncObj(i)] = DictSet(@, "name", "scribbled")]
    /\ UNCHANGED <<args, kwRef, start, result, duration_ms, funcArgs, now,
                   sunk, inputs, endRead>>

\* duration_ms = (time.time() - start) * 1_000 (line 39)
L39(i) ==
    /\ pc[i] = "l39"
    /\ duration_ms' = [duration_ms EXCEPT ![i] = ElapsedMs(i)]
    /\ endRead' = [endRead EXCEPT ![i] = now]
    /\ pc' = [pc EXCEPT ![i] = "l40"]
    /\ UNCHANGED <<args, kwRef, start, result, err, heap, funcArgs, now, sunk,
                   inputs, opOutcome, wrapperOutcome, events>>

\* histogram.record(duration_ms, kwargs) (line 40) accepts the measurement
L40Ok(i) ==
    /\ pc[i] = "l40"
    /\ sunk' = sunk \cup {Measurement(i, "success")}
    /\ Log(i, "record")
    /\ pc' = [pc EXCEPT ![i] = "l41"]
    /\ UNCHANGED <<locals, heap, funcArgs, now, inputs, opOutcome,
                   wrapperOutcome, endRead>>

\* histogram.record(duration_ms, kwargs) (line 40) raises: the call is inside
\* the try block, so `except Exception as err` (line 42) applies to it
L40Fail(i) ==
    /\ pc[i] = "l40"
    /\ \E e \in SinkErrors :
          IF Catches(e)
             THEN /\ err' = [err EXCEPT ![i] = e]
                  /\ pc' = [pc EXCEPT ![i] = "l43"]
                  /\ events' = [events EXCEPT ![i] = Append(@, "record_failed")]
                  /\ UNCHANGED wrapperOutcome
             ELSE /\ wrapperOutcome' = [wrapperOutcome EXCEPT ![i] = Raised(e)]
                  /\ pc' = [pc EXCEPT ![i] = "raised"]
                  /\ events' = [events EXCEPT
                                  ![i] = @ \o <<"record_failed", "raised">>]
                  /\ UNCHANGED err
    /\ UNCHANGED <<args, kwRef, start, result, duration_ms, heap, funcArgs,
                   now, sunk, inputs, opOutcome, endRead>>

\* return result (line 41)
L41(i) ==
    /\ pc[i] = "l41"
    /\ wrapperOutcome' = [wrapperOutcome EXCEPT ![i] = Returned(ReturnValue(i))]
    /\ Log(i, "returned")
    /\ pc' = [pc EXCEPT ![i] = "returned"]
    /\ UNCHANGED <<locals, heap, funcArgs, now, sunk, inputs, opOutcome,
                   endRead>>

\* duration_ms = (time.time() - start) * 1_000 (line 43)
L43(i) ==
    /\ pc[i] = "l43"
    /\ duration_ms' = [duration_ms EXCEPT ![i] = ElapsedMs(i)]
    /\ endRead' = [endRead EXCEPT ![i] = now]
    /\ pc' = [pc EXCEPT ![i] = "l44"]
    /\ UNCHANGED <<args, kwRef, start, result, err, heap, funcArgs, now, sunk,
                   inputs, opOutcome, wrapperOutcome, events>>

\* kwargs["error"] = str(err) (line 44); an error raised by str() leaves the
\* except block and reaches the caller
L44(i) ==
    /\ pc[i] = "l44"
    /\ IF StrRaises(err[i])
          THEN /\ wrapperOutcome' = [wrapperOutcome EXCEPT
                                       ![i] = Raised("TypeError")]
               /\ pc' = [pc EXCEPT ![i] = "raised"]
               /\ Log(i, "raised")
               /\ UNCHANGED heap
          ELSE /\ heap' = [heap EXCEPT
                             ![kwRef[i]] = DictSet(@, "error", Str(err[i]))]
               /\ pc' = [pc EXCEPT ![i] = "l45"]
               /\ UNCHANGED <<wrapperOutcome, events>>
    /\ UNCHANGED <<locals, funcArgs, now, sunk, inputs, opOutcome, endRead>>

\* histogram.record(duration_ms, kwargs) (line 45) accepts the measurement
L45Ok(i) ==
    /\ pc[i] = "l45"
    /\ sunk' = sunk \cup {Measurement(i, "failure")}
    /\ Log(i, "record")
    /\ pc' = [pc EXCEPT ![i] = "l46"]
    /\ UNCHANGED <<locals, heap, funcArgs, now, inputs, opOutcome,
                   wrapperOutcome, endRead>>

\* histogram.record(duration_ms, kwargs) (line 45) raises inside the except
\* block: the new error reaches the caller
L45Fail(i) ==
    /\ pc[i] = "l45"
    /\ \E e \in SinkErrors :
          wrapperOutcome' = [wrapperOutcome EXCEPT ![i] = Raised(e)]
    /\ events' = [events EXCEPT ![i] = @ \o <<"record_failed", "raised">>]
    /\ pc' = [pc EXCEPT ![i] = "raised"]
    /\ UNCHANGED <<locals, heap, funcArgs, now, sunk, inputs, opOutcome,
                   endRead>>

\* raise err (line 46)
L46(i) ==
    /\ pc[i] = "l46"
    /\ wrapperOutcome' = [wrapperOutcome EXCEPT ![i] = Raised(Reraised(i))]
    /\ Log(i, "raised")
    /\ pc' = [pc EXCEPT ![i] = "raised"]
    /\ UNCHANGED <<locals, heap, funcArgs, now, sunk, inputs, opOutcome,
                   endRead>>

Next ==
    \/ Tick
    \/ SetBack
    \/ \E i \in Invs : Call(i)
    \/ \E i \in Invs : L36(i)
    \/ \E i \in Invs : L38Call(i)
    \/ \E i \in Invs : FuncReturn(i)
    \/ \E i \in Invs : FuncRaise(i)
    \/ \E i \in Invs : L39(i)
    \/ \E i \in Invs : L40Ok(i)
    \/ \E i \in Invs : L40Fail(i)
    \/ \E i \in Invs : L41(i)
    \/ \E i \in Invs : L43(i)
    \/ \E i \in Invs : L44(i)
    \/ \E i \in Invs : L45Ok(i)
    \/ \E i \in Invs : L45Fail(i)
    \/ \E i \in Invs : L46(i)

Spec == Init /\ [][Next]_vars

(***************************************************************************)
(* Vocabulary of the properties                                            *)
(***************************************************************************)
Done(i) == pc[i] \in {"returned", "raised"}

MeasurementsOf(i) == {m \in sunk : m.inv = i}

IsTerminal(ev) == ev \in {"succeeded", "failed"}

IsRecord(ev) == ev \in {"record", "record_failed"}

IsDelivery(ev) == ev \in {"returned", "raised"}

RecordCalls(i) == Cardinality({k \in 1..Len(events[i]) : IsRecord(events[i][k])})

\* some histogram.record call of invocation i raised
SinkFailed(i) == \E k \in 1..Len(events[i]) : events[i][k] = "record_failed"

\* func of invocation i raised an error whose str() raises
StrFailed(i) == opOutcome[i].kind = "raised" /\ StrRaises(opOutcome[i].val)

\* the attributes the claims expect for invocation i
OwnAttrs(i) ==
    IF opOutcome[i].kind = "raised"
       THEN DictSet(callerKw0[i], "error", Str(opOutcome[i].val))
       ELSE callerKw0[i]

(***************************************************************************)
(* C1 as stated: whenever func returned a value, the finished wrapper      *)
(* returned that same value to the caller.                                 *)
(***************************************************************************)
C1_Original ==
    \A i \in Invs :
        (Done(i) /\ opOutcome[i].kind = "returned")
            => wrapperOutcome[i] = opOutcome[i]

(***************************************************************************)
(* C1 amended: whenever func returned a value and no histogram.record call *)
(* of the invocation raised, the finished wrapper returned that same       *)
(* value; and the wrapper never returns anything but func's value.         *)
(***************************************************************************)
C1_ReturnsSameValue ==
    \A i \in Invs :
        /\ (Done(i) /\ opOutcome[i].kind = "returned" /\ ~SinkFailed(i))
              => wrapperOutcome[i] = opOutcome[i]
        /\ wrapperOutcome[i].kind = "returned"
              => wrapperOutcome[i] = opOutcome[i]

\* C1 witness: a call with arguments whose func returned and whose wrapper
\* returned after a successful record
C1_Witness ==
    \E i \in Invs :
        /\ pc[i] = "returned"
        /\ opOutcome[i] = Returned("nice")
        /\ callerArgs0[i] # <<>>
        /\ callerKw0[i] # EmptyDict
        /\ ~SinkFailed(i)

C3_ExactlyOneRecord ==
    \A i \in Invs :
        Done(i) => /\ RecordCalls(i) = 1
                   /\ Cardinality(MeasurementsOf(i)) = 1

(***************************************************************************)
(* C4 as stated: when histogram.record raises after func succeeded, the    *)
(* wrapper does not enter the failure path: it never reaches lines 43-46,  *)
(* no `error` item is written into kwargs and no second record call is     *)
(* made.                                                                   *)
(***************************************************************************)
C4_SinkFailureNotConflated ==
    \A i \in Invs :
        (opOutcome[i].kind = "returned" /\ SinkFailed(i))
            => /\ pc[i] \notin {"l43", "l44", "l45", "l46"}
               /\ heap[kwRef[i]] = callerKw0[i]
               /\ RecordCalls(i) <= 1

(***************************************************************************)
(* C5 as stated: a recorded attribute set has an `error` key exactly when  *)
(* func of that invocation failed.                                         *)
(***************************************************************************)
C5_ErrorKeyIffFailed ==
    \A m \in sunk :
        ("error" \in DOMAIN m.attrs) <=> (opOutcome[m.inv].kind = "raised")

(***************************************************************************)
(* C6 as stated: the attribute set recorded on the failure path is the     *)
(* named arguments as passed (the set of the success path), values         *)
(* unchanged, plus exactly one additional key `error` holding str(err).    *)
(***************************************************************************)
C6_FailureAttrsAreBasePlusError ==
    \A m \in sunk :
        m.path = "failure" =>
            LET base == callerKw0[m.inv] IN
            /\ "error" \notin DOMAIN base
            /\ DOMAIN m.attrs = (DOMAIN base) \cup {"error"}
            /\ \A k \in DOMAIN base : m.attrs[k] = base[k]
            /\ m.attrs["error"] = Str(err[m.inv])

(***************************************************************************)
(* C7: the mapping the caller passed is never changed by the wrapper, and  *)
(* the `error` item the wrapper adds never shows up in the kwargs dict of  *)
(* the wrapped operation.                                                  *)
(***************************************************************************)
C7_CallerArgsUnchanged ==
    \A i \in Invs :
        /\ heap[CallerObj(i)] = callerKw0[i]
        /\ "error" \in DOMAIN heap[FuncObj(i)]
              => "error" \in DOMAIN callerKw0[i]

\* C7 witness: a finished failing invocation whose kwargs dict got the
\* `error` item although the caller passed none
C7_Witness ==
    \E i \in Invs :
        /\ pc[i] = "raised"
        /\ opOutcome[i].kind = "raised"
        /\ "error" \in DOMAIN heap[kwRef[i]]
        /\ "error" \notin DOMAIN callerKw0[i]
        /\ callerKw0[i] # EmptyDict

(***************************************************************************)
(* C8 as stated: under every interleaving, each finished invocation has    *)
(* exactly one measurement in the sink, computed from its own start and    *)
(* carrying its own named arguments plus its own error if func failed.     *)
(***************************************************************************)
C8_OneOwnMeasurementEach ==
    \A i \in Invs :
        Done(i) =>
            \E m \in sunk :
                /\ MeasurementsOf(i) = {m}
                /\ m.value = (endRead[i] - start[i]) * 1000
                /\ m.attrs = OwnAttrs(i)

(***************************************************************************)
(* C9 as stated: every recorded latency is >= 0.                           *)
(***************************************************************************)
C9_LatencyNonNegative == \A m \in sunk : m.value >= 0

====
